---- MODULE Spec2Model ----
(***************************************************************************)
(* time_back: the sampler thread and the display of src/main.rs.           *)
(*                                                                         *)
(* Durations are integers in milliseconds.  An Instant is kept as the      *)
(* value its elapsed() has at the current moment (last_input_elapsed,      *)
(* last_save_elapsed): the code only ever reads an Instant through         *)
(* elapsed().  Time passes in the sampler's sleep; the statements of one   *)
(* tick take no time.  An Option is a sequence of length 0 (None) or 1.    *)
(*                                                                         *)
(* Atomicity.  What a thread does while it holds the window_time mutex is  *)
(* one action: the sampler's attribution (lines 114-131) and the display's *)
(* table (lines 365-409) exclude each other, and the statements around     *)
(* them touch only the thread's own locals.  A step of the model is        *)
(* therefore a tick up to the flush test, a periodic flush, a frame of the *)
(* display, or one of the two halves of Drop (the clone of the store, the  *)
(* write of the file).  SpecFlush takes the write of a file call by call   *)
(* (File::create, then to_writer), for what the file holds while both      *)
(* threads have it open, and SpecLocks follows the two mutexes lock by     *)
(* lock, for the order in which the threads take them.                     *)
(***************************************************************************)
EXTENDS Integers, Sequences, FiniteSets, TLC

\* ------------------------------------------------------------- bounds
MaxTicks == 2      \* sampler ticks over the whole behaviour
MaxDay == 2        \* calendar days 1..MaxDay
MaxLen == 4        \* durations of one label handed to utils.rs
MaxFiles == 3      \* entries of a scanned directory

\* ------------------------------------------------- program constants
save_duration == 5000
check_duration == 50
long_gap_between_input == 600000
small_gap_between_input == 5000

\* -------------------------------------------------------- input sets
AppNames == {"a"}
EmptyLabel == ""
Labels == AppNames \cup {EmptyLabel}
Dirs == {"d1"}
Days == 1..MaxDay
MousePositions == {0, 1}
\* device_state.get_mouse(): the coordinates and whether a button is down
MouseStates(positions) == [coords : positions, button_pressed : BOOLEAN]
StillMouse == [coords |-> 0, button_pressed |-> FALSE]
\* what one thread::sleep(check_duration) can take: never less than the
\* requested 50 ms, and as much more as the scheduler or a suspend adds
SleepDurations == {check_duration, small_gap_between_input, long_gap_between_input}
\* the sleeps of the specification of the whole life of the process: a tick on
\* time, and a pause that makes the flush due and the input old
LifeDurations == {check_duration, long_gap_between_input}

\* durations a daily file can hold: none, less than a second, a whole second,
\* seconds and a fraction
StoredDurations == {0, check_duration, 999, 1000, 5050}

None == <<>>
Some(x) == <<x>>
OptionDirs == {None} \cup {Some(d) : d \in Dirs}

EmptyMap == [k \in {} |-> 0]

\* Config::default()
DefaultConfig ==
    [output_directory |-> None, processes_with_longer_tracking |-> {}]

\* ------------------------------------------------------ pure helpers
\* HashMap::get(..).unwrap_or(0) as the display and the claims read a value
Get(m, k) == IF k \in DOMAIN m THEN m[k] ELSE 0

\* *window_time.entry(k).or_insert(Duration::default()) += check_duration
Increment_reset(m, k) ==
    [x \in DOMAIN m \cup {k} |-> IF x = k THEN check_duration ELSE m[x]]
Increment_drop(m, k) == [x \in {k} |-> Get(m, k) + check_duration]
Increment_all(m, k) ==
    [x \in DOMAIN m \cup {k} |-> Get(m, x) + check_duration]
Increment(m, k) ==
    [x \in DOMAIN m \cup {k} |-> IF x = k THEN Get(m, k) + check_duration ELSE m[x]]

\* the threshold of a tick, lines 120-125
GapBetweenInput_short(long, app) == small_gap_between_input
GapBetweenInput(long, app) ==
    IF app \in long THEN long_gap_between_input ELSE small_gap_between_input

\* last_input.elapsed() <= gap_between_input, line 126
ShouldCredit_strict(elapsed, gap) == elapsed < gap
ShouldCredit_long(elapsed, gap) == elapsed <= gap \/ gap = long_gap_between_input
ShouldCredit(elapsed, gap) == elapsed <= gap

\* last_save.elapsed() > save_duration, line 133
SaveDue_inclusive(elapsed) == elapsed >= save_duration
SaveDue(elapsed) == elapsed > save_duration

\* serde's encoding of a Duration: {"secs": u64, "nanos": u32}
DurationToJson_secs(ms) == <<ms \div 1000, 0>>
DurationToJson(ms) == <<ms \div 1000, (ms % 1000) * 1000000>>
DurationFromJson(j) == j[1] * 1000 + j[2] \div 1000000
\* serde_json::to_writer(f, &data) and serde_json::from_reader(f)
ToJson(m) == [k \in DOMAIN m |-> DurationToJson(m[k])]
FromJson(j) == [k \in DOMAIN j |-> DurationFromJson(j[k])]

\* a file of the output directory: absent, holding a JSON map, or cut short
\* (File::create truncated it and the write after it failed)
AbsentFile == [kind |-> "absent", json |-> EmptyMap]
CorruptFile == [kind |-> "corrupt", json |-> EmptyMap]
MapFile(m) == [kind |-> "map", json |-> ToJson(m)]
\* a file as File::create leaves it: it exists and is empty
TruncatedFile == [kind |-> "truncated", json |-> EmptyMap]

VARIABLES
    phase,               \* the process: "running" | "exited" | "panicked" |
                         \* "failed" (main returned the error of run_native)
    today,               \* the calendar date, chrono::Local::now().date_naive()
    files,               \* the output directories: <<dir, day>> -> file
    persisted,           \* the record confy stores
    config,              \* Arc<Mutex<Config>>
    window_time,         \* Arc<Mutex<HashMap<String, Duration>>>
    file_name,           \* generate_file_name() of line 39
    s_pc,                \* the sampler thread's position
    ticks,               \* sampler ticks so far
    last_input_elapsed,  \* last_input.elapsed()
    last_save_elapsed,   \* last_save.elapsed()
    mouse_position,
    active_window,       \* active_window.app_name of this tick
    d_pc,                \* the display's position
    close,               \* Rc<RefCell<bool>>
    d_data,              \* Drop's clone of window_time
    loaded,              \* history: window_time as loaded at startup
    credits,             \* history: ticks credited per label since startup
    flush_result,        \* history: outcome of the last periodic flush
    drop_result,         \* history: outcome of the Drop just run
    h_pc,                \* collect_previous_data: "off" | "scan" | "done"
    entries,             \* the directory as read_dir lists it
    next_entry,          \* the entry the for loop of line 204 is at
    result,              \* BTreeMap<String, Vec<Duration>> of line 202
    file_count,          \* line 203; the argument of calculate_avg
    sum_chart,           \* TimeBack's charts, from collect_previous_data
    avg_chart,
    median_chart,
    u_pc,                \* utils.rs: "off" | "call" | "done"
    data,                \* the argument of calculate_sum, _avg and _median
    result_sum,          \* what calculate_sum returned
    result_avg,          \* what calculate_avg returned
    result_median,       \* what calculate_median returned
    settings_open,       \* TimeBack::settings_open
    selected,            \* history: the directory last picked in Settings
    accepted,            \* history: Accept was clicked in Settings after it
    held,                \* thread -> the mutexes it holds, in the order taken
    l_pc                 \* thread -> the line of its next lock or unlock

aggregator_vars == <<h_pc, entries, next_entry, result, file_count,
                     sum_chart, avg_chart, median_chart>>
utils_vars == <<u_pc, data, result_sum, result_avg, result_median>>
statistics_vars == <<aggregator_vars, utils_vars>>
process_vars == <<phase, today, files, persisted, config, window_time,
                  file_name, s_pc, ticks, last_input_elapsed, last_save_elapsed,
                  mouse_position, active_window, d_pc, close, d_data, loaded,
                  credits, flush_result, drop_result>>

settings_vars == <<settings_open, selected, accepted>>
lock_vars == <<held, l_pc>>

vars == <<process_vars, statistics_vars, settings_vars, lock_vars>>

sampler_vars == <<s_pc, ticks, last_input_elapsed, last_save_elapsed,
                  mouse_position, active_window>>
display_vars == <<d_pc, close, d_data>>
disk_vars == <<files, persisted>>
history_vars == <<loaded, credits, flush_result, drop_result>>

\* ------------------------------------------------------------ startup
\* no directory is being scanned and no statistic is being calculated
AggregatorOff ==
    /\ h_pc = "off"
    /\ entries = <<>>
    /\ next_entry = 1
    /\ result = EmptyMap
    /\ file_count = 0
    /\ sum_chart = <<>>
    /\ avg_chart = <<>>
    /\ median_chart = <<>>

UtilsOff ==
    /\ u_pc = "off"
    /\ data = EmptyMap
    /\ result_sum = <<>>
    /\ result_avg = <<>>
    /\ result_median = <<>>

StatisticsOff == AggregatorOff /\ UtilsOff

\* line 179: a new TimeBack has settings_open: false
SettingsClosed ==
    /\ settings_open = FALSE
    /\ selected = None
    /\ accepted = FALSE

Threads == {"sampler", "display"}
\* the two threads taken apart from their mutexes: no guard is followed
LocksOff ==
    /\ held = [t \in Threads |-> <<>>]
    /\ l_pc = [t \in Threads |-> "off"]


\* lines 40-70: today's file of the configured directory, or an empty map
LoadData(cfg, fs, name) ==
    IF cfg.output_directory = None THEN EmptyMap
    ELSE LET f == fs[<<cfg.output_directory[1], name>>]
         IN  IF f.kind = "map" THEN FromJson(f.json) ELSE EmptyMap

ProcessInit ==
    /\ phase = "running"
    /\ today = 1
    /\ files = [p \in Dirs \X Days |-> AbsentFile]
    /\ persisted = DefaultConfig
    /\ config = DefaultConfig
    /\ window_time = EmptyMap
    /\ file_name = 1
    /\ s_pc = "sleep"
    /\ ticks = 0
    /\ last_input_elapsed = 0
    /\ last_save_elapsed = 0
    /\ mouse_position = 0
    /\ active_window = EmptyLabel
    /\ d_pc = "idle"
    /\ close = FALSE
    /\ d_data = EmptyMap
    /\ loaded = EmptyMap
    /\ credits = [l \in Labels |-> 0]
    /\ flush_result = "none"
    /\ drop_result = "none"

Init == ProcessInit /\ StatisticsOff /\ SettingsClosed /\ LocksOff

\* ------------------------------------------------------------ sampler
\* lines 90-101: a moved mouse or a pressed key is an input; of the MouseState
\* only coords is read
InputDetected(old_position, mouse, keys) == mouse.coords # old_position \/ keys

\* lines 103-113: get_active_window() gives the window of an application, or
\* Err(()); the Err arm builds an ActiveWindow of defaults, whose app_name is
\* String::default()
QueryFailed == "Err(())"
WindowQueries == AppNames \cup {QueryFailed}
AppNameOf_first(query) ==
    IF query = QueryFailed THEN CHOOSE a \in AppNames : TRUE ELSE query
AppNameOf(query) == IF query = QueryFailed THEN EmptyLabel ELSE query

\* lines 115-119: the set is cloned from the shared config on every tick
ReadLongTracking_default(cfg) == DefaultConfig.processes_with_longer_tracking
ReadLongTracking(cfg) == cfg.processes_with_longer_tracking

\* lines 89-134: sleep, read the devices, query the active window (win is the
\* app_name of the ActiveWindow of lines 103-113), attribute the tick
\* under the guard of window_time, test last_save (a due flush sets
\* last_save = Instant::now())
SamplerTick(d, mouse, keys, win) ==
    /\ phase = "running"
    /\ s_pc = "sleep"
    /\ ticks < MaxTicks
    /\ ticks' = ticks + 1
    /\ mouse_position' = mouse.coords
    /\ last_input_elapsed' =
           IF InputDetected(mouse_position, mouse, keys) THEN 0
           ELSE last_input_elapsed + d
    /\ active_window' = win
    /\ LET long == ReadLongTracking(config)
           credit == ShouldCredit(last_input_elapsed', GapBetweenInput(long, win))
       IN  /\ window_time' = IF credit THEN Increment(window_time, win)
                             ELSE window_time
           /\ credits' = IF credit THEN [credits EXCEPT ![win] = @ + 1]
                         ELSE credits
    /\ IF SaveDue(last_save_elapsed + d)
       THEN /\ last_save_elapsed' = 0
            /\ s_pc' = "write"
       ELSE /\ last_save_elapsed' = last_save_elapsed + d
            /\ s_pc' = "sleep"
    /\ UNCHANGED <<phase, today, config, file_name>>
    /\ UNCHANGED <<display_vars, disk_vars, loaded, flush_result, drop_result>>
    /\ UNCHANGED <<statistics_vars, settings_vars, lock_vars>>

\* File::create(path) then serde_json::to_writer(f, &data):
\* create truncates, a failed write leaves the file cut short
FlushOutcomes == {"ok", "create_failed", "write_failed"}
WriteFile(fs, dir, name, map, outcome) ==
    CASE outcome = "ok" -> [fs EXCEPT ![<<dir, name>>] = MapFile(map)]
      [] outcome = "write_failed" -> [fs EXCEPT ![<<dir, name>>] = CorruptFile]
      [] OTHER -> fs

\* lines 145-151: both errors of the periodic flush are printed, and the loop
\* goes on
AfterPeriodicFlush_unwrap(outcome) == IF outcome = "ok" THEN "sleep" ELSE "dead"
AfterPeriodicFlush(outcome) == "sleep"

\* the name the periodic flush writes to (line 143: the file_name of line 39)
PeriodicFileName == file_name

\* lines 135-142, no output directory: nothing is written
SamplerFlushSkip_writes ==
    /\ phase = "running"
    /\ s_pc = "write"
    /\ config.output_directory = None
    /\ files' = [f \in DOMAIN files |->
                    IF f[2] = file_name THEN MapFile(window_time) ELSE files[f]]
    /\ flush_result' = "skipped"
    /\ s_pc' = "sleep"
    /\ UNCHANGED <<phase, today, config, window_time, file_name, ticks,
                   last_input_elapsed, last_save_elapsed, mouse_position,
                   active_window>>
    /\ UNCHANGED <<display_vars, persisted, loaded, credits, drop_result>>
    /\ UNCHANGED <<statistics_vars, settings_vars, lock_vars>>
SamplerFlushSkip ==
    /\ phase = "running"
    /\ s_pc = "write"
    /\ config.output_directory = None
    /\ flush_result' = "skipped"
    /\ s_pc' = "sleep"
    /\ UNCHANGED <<phase, today, config, window_time, file_name, ticks,
                   last_input_elapsed, last_save_elapsed, mouse_position,
                   active_window>>
    /\ UNCHANGED <<display_vars, disk_vars, loaded, credits, drop_result>>
    /\ UNCHANGED <<statistics_vars, settings_vars, lock_vars>>

\* lines 135-152: the clone of the store goes to the file
SamplerFlush(outcome) ==
    /\ phase = "running"
    /\ s_pc = "write"
    /\ config.output_directory # None
    /\ files' = WriteFile(files, config.output_directory[1], PeriodicFileName,
                          window_time, outcome)
    /\ flush_result' = outcome
    /\ s_pc' = AfterPeriodicFlush(outcome)
    /\ UNCHANGED <<phase, today, config, window_time, file_name, ticks,
                   last_input_elapsed, last_save_elapsed, mouse_position,
                   active_window>>
    /\ UNCHANGED <<display_vars, persisted, loaded, credits, drop_result>>
    /\ UNCHANGED <<statistics_vars, settings_vars, lock_vars>>

\* the sampler thread, with the sleeps and mouse positions the environment
\* supplies
Sampler(durations, positions) ==
    \/ \E d \in durations, mouse \in MouseStates(positions), keys \in BOOLEAN,
          query \in WindowQueries :
              SamplerTick(d, mouse, keys, AppNameOf(query))
    \/ SamplerFlushSkip
    \/ \E outcome \in FlushOutcomes : SamplerFlush(outcome)

\* ------------------------------------------------------------ display
\* generate_file_name(): the date at the time of the call
generate_file_name == today

\* confy::store("time_back", None, &*config)
Store(record, cfg, store_ok) == IF store_ok THEN cfg ELSE record

\* lines 335-337 and 469-472: the unconfigured frame, "Select output
\* directory" clicked; the dialog's answer goes into the shared config
DisplayInitialSelect(choice) ==
    /\ phase = "running"
    /\ d_pc = "idle"
    /\ config.output_directory = None
    /\ config' = [config EXCEPT !.output_directory = choice]
    /\ UNCHANGED <<phase, today, window_time, file_name>>
    /\ UNCHANGED <<sampler_vars, display_vars, disk_vars, history_vars>>
    /\ UNCHANGED <<statistics_vars, settings_vars, lock_vars>>

\* lines 335-337 and 477-484: the unconfigured frame, "Accept" clicked
DisplayInitialAccept(store_ok) ==
    /\ phase = "running"
    /\ d_pc = "idle"
    /\ config.output_directory = None
    /\ persisted' = Store(persisted, config, store_ok)
    /\ UNCHANGED <<phase, today, config, window_time, file_name, files>>
    /\ UNCHANGED <<sampler_vars, display_vars, history_vars>>
    /\ UNCHANGED <<statistics_vars, settings_vars, lock_vars>>

\* lines 373-380: a clicked checkbox inserts or removes the row's label
Toggle(long, n) == IF n \in long THEN long \ {n} ELSE long \cup {n}

\* lines 335-346 and 365-409: the configured frame; the table is drawn under
\* both guards and the checkbox of row n is clicked
DisplayToggle(n, store_ok) ==
    /\ phase = "running"
    /\ d_pc = "idle"
    /\ config.output_directory # None
    /\ n \in DOMAIN window_time
    /\ config' = [config EXCEPT !.processes_with_longer_tracking = Toggle(@, n)]
    /\ persisted' = Store(persisted, config', store_ok)
    /\ UNCHANGED <<phase, today, window_time, file_name, files>>
    /\ UNCHANGED <<sampler_vars, display_vars, history_vars>>
    /\ UNCHANGED <<statistics_vars, settings_vars, lock_vars>>

\* lines 328-331: "Close" clicked
DisplayClose ==
    /\ phase = "running"
    /\ d_pc = "idle"
    /\ close' = TRUE
    /\ d_pc' = "drop"
    /\ UNCHANGED <<phase, today, config, window_time, file_name, d_data>>
    /\ UNCHANGED <<sampler_vars, disk_vars, history_vars>>
    /\ UNCHANGED <<statistics_vars, settings_vars, lock_vars>>

\* the window is closed by the window manager: run_native returns, line 182
DisplayWindowClosed ==
    /\ phase = "running"
    /\ d_pc = "idle"
    /\ d_pc' = "drop"
    /\ UNCHANGED <<phase, today, config, window_time, file_name, close, d_data>>
    /\ UNCHANGED <<sampler_vars, disk_vars, history_vars>>
    /\ UNCHANGED <<statistics_vars, settings_vars, lock_vars>>

\* line 290: self.window_time.lock().unwrap().clone()
DropSnapshot ==
    /\ phase = "running"
    /\ d_pc = "drop"
    /\ d_data' = window_time
    /\ d_pc' = "drop_write"
    /\ UNCHANGED <<phase, today, config, window_time, file_name, close>>
    /\ UNCHANGED <<sampler_vars, disk_vars, history_vars>>
    /\ UNCHANGED <<statistics_vars, settings_vars, lock_vars>>

\* the memory of a process that has ended
ProcessGone ==
    /\ config' = DefaultConfig
    /\ window_time' = EmptyMap
    /\ s_pc' = "sleep"
    /\ last_input_elapsed' = 0
    /\ last_save_elapsed' = 0
    /\ mouse_position' = 0
    /\ active_window' = EmptyLabel
    /\ d_pc' = "idle"
    /\ close' = FALSE
    /\ d_data' = EmptyMap
    /\ loaded' = EmptyMap
    /\ credits' = [l \in Labels |-> 0]
    /\ flush_result' = "none"
    /\ settings_open' = FALSE
    /\ selected' = None
    /\ accepted' = FALSE
    /\ UNCHANGED <<file_name, ticks>>

\* lines 298-303: unwrap_or_else(panic) on the create, unwrap on the write
DropPanics_logged(outcome) == FALSE
DropPanics(outcome) == outcome # "ok"

\* the thread after Drop: gone with the panic, or back in main's loop
AfterDrop(panics) ==
    /\ phase' = IF panics THEN "panicked" ELSE "running"
    /\ IF panics
       THEN ProcessGone
       ELSE /\ d_pc' = "dropped"
            /\ UNCHANGED <<config, window_time, file_name, close, d_data>>
            /\ UNCHANGED <<sampler_vars, loaded, credits, flush_result>>
            /\ UNCHANGED settings_vars

\* lines 291-296, no output directory: nothing is written
DropSkip ==
    /\ phase = "running"
    /\ d_pc = "drop_write"
    /\ config.output_directory = None
    /\ drop_result' = "skipped"
    /\ AfterDrop(FALSE)
    /\ UNCHANGED <<today, disk_vars>>
    /\ UNCHANGED <<statistics_vars, lock_vars>>

\* lines 291-304
DropFlush(outcome) ==
    /\ phase = "running"
    /\ d_pc = "drop_write"
    /\ config.output_directory # None
    /\ files' = WriteFile(files, config.output_directory[1], generate_file_name,
                          d_data, outcome)
    /\ drop_result' = outcome
    /\ AfterDrop(DropPanics(outcome))
    /\ UNCHANGED <<today, persisted>>
    /\ UNCHANGED <<statistics_vars, lock_vars>>

\* lines 183-185, the close flag is set: main returns and the process ends
DisplayExit ==
    /\ phase = "running"
    /\ d_pc = "dropped"
    /\ close
    /\ phase' = "exited"
    /\ drop_result' = "none"
    /\ ProcessGone
    /\ UNCHANGED <<today, disk_vars>>
    /\ UNCHANGED <<statistics_vars, lock_vars>>

\* lines 159-182, the close flag is not set: a new window over the same
\* window_time and config
DisplayNewWindow ==
    /\ phase = "running"
    /\ d_pc = "dropped"
    /\ ~close
    /\ d_pc' = "idle"
    /\ drop_result' = "none"
    /\ UNCHANGED <<phase, today, config, window_time, file_name, close, d_data>>
    /\ UNCHANGED <<sampler_vars, disk_vars, loaded, credits, flush_result>>
    /\ settings_open' = FALSE
    /\ selected' = None
    /\ accepted' = FALSE
    /\ UNCHANGED <<statistics_vars, lock_vars>>

\* lines 166-182: run_native(..)? cannot bring up the next window; main
\* returns the error and the process ends, the close flag not set
DisplayRunFailed ==
    /\ phase = "running"
    /\ d_pc = "dropped"
    /\ ~close
    /\ phase' = "failed"
    /\ drop_result' = "none"
    /\ ProcessGone
    /\ UNCHANGED <<today, disk_vars>>
    /\ UNCHANGED <<statistics_vars, lock_vars>>

Display ==
    \/ \E choice \in OptionDirs : DisplayInitialSelect(choice)
    \/ \E store_ok \in BOOLEAN : DisplayInitialAccept(store_ok)
    \/ \E n \in Labels, store_ok \in BOOLEAN : DisplayToggle(n, store_ok)
    \/ DisplayClose
    \/ DisplayWindowClosed
    \/ DropSnapshot
    \/ DropSkip
    \/ \E outcome \in FlushOutcomes : DropFlush(outcome)
    \/ DisplayExit
    \/ DisplayNewWindow
    \/ DisplayRunFailed

\* -------------------------------------------------------- environment
\* lines 26-79: the process is started again after it ended; confy::load
\* gives the stored record, or the default when it cannot be loaded
Restart(load_ok) ==
    /\ phase \in {"exited", "panicked", "failed"}
    /\ phase' = "running"
    /\ config' = IF load_ok THEN persisted ELSE DefaultConfig
    /\ file_name' = generate_file_name
    /\ window_time' = LoadData(config', files, file_name')
    /\ loaded' = window_time'
    /\ drop_result' = "none"
    /\ UNCHANGED <<credits, flush_result>>
    /\ UNCHANGED <<today, sampler_vars, display_vars, disk_vars>>
    /\ UNCHANGED <<statistics_vars, settings_vars, lock_vars>>

\* midnight passes
DayChange ==
    /\ today < MaxDay
    /\ today' = today + 1
    /\ UNCHANGED <<phase, config, window_time, file_name>>
    /\ UNCHANGED <<sampler_vars, display_vars, disk_vars, history_vars>>
    /\ UNCHANGED <<statistics_vars, settings_vars, lock_vars>>

Next ==
    \/ Sampler(LifeDurations, {0})
    \/ Display
    \/ \E load_ok \in BOOLEAN : Restart(load_ok)

\* the life of the process within one day: sampler, display, shutdown, restart
Spec == Init /\ [][Next]_vars

\* the same, with the date changing under the process
NextMidnight ==
    \/ Next
    \/ DayChange

SpecMidnight == Init /\ [][NextMidnight]_vars

\* the sampler with every sleep and every device reading, under the edits of
\* the display
NextSampler ==
    \/ Sampler(SleepDurations, MousePositions)
    \/ \E choice \in OptionDirs : DisplayInitialSelect(choice)
    \/ \E n \in Labels, store_ok \in BOOLEAN : DisplayToggle(n, store_ok)

SpecSampler == Init /\ [][NextSampler]_vars

\* --------------------------------------- a day that is already on file
\* the maps a daily file can hold
StoredMaps == UNION {[ks -> StoredDurations] : ks \in SUBSET Labels}

\* lines 26-79 run with the output directory in the stored configuration and
\* today's file holding the map m
ProcessInitStored(m) ==
    /\ phase = "running"
    /\ today = 1
    /\ files = [p \in Dirs \X Days |->
                   IF p[2] = 1 THEN MapFile(m) ELSE AbsentFile]
    /\ persisted \in {[DefaultConfig EXCEPT !.output_directory = Some(d)] : d \in Dirs}
    /\ config = persisted
    /\ file_name = 1
    /\ window_time = LoadData(config, files, file_name)
    /\ loaded = window_time
    /\ s_pc = "sleep"
    /\ ticks = 0
    /\ last_input_elapsed = 0
    /\ last_save_elapsed = 0
    /\ mouse_position = 0
    /\ active_window = EmptyLabel
    /\ d_pc = "idle"
    /\ close = FALSE
    /\ d_data = EmptyMap
    /\ credits = [l \in Labels |-> 0]
    /\ flush_result = "none"
    /\ drop_result = "none"

InitStored(m) ==
    ProcessInitStored(m) /\ StatisticsOff /\ SettingsClosed /\ LocksOff

InitRoundTrip == \E m \in StoredMaps : InitStored(m)

NextRoundTrip ==
    \/ \E d \in LifeDurations, keys \in BOOLEAN, query \in WindowQueries :
          SamplerTick(d, StillMouse, keys, AppNameOf(query))
    \/ \E outcome \in FlushOutcomes : SamplerFlush(outcome)
    \/ DisplayClose
    \/ DropSnapshot
    \/ \E outcome \in FlushOutcomes : DropFlush(outcome)
    \/ DisplayExit
    \/ Restart(TRUE)

\* a configured process over a day whose file exists: ticks, flushes, Close,
\* and the next start
SpecRoundTrip == InitRoundTrip /\ [][NextRoundTrip]_vars

\* ------------------------------------------------- statistics, utils.rs
\* the labels of the statistics, in the order a BTreeMap<String, _> iterates
LabelOrder == <<"a", "b", "something-else", "time_back">>
StatLabels == {"a", "b"}
SampleDurations == {1000, 3000}

\* an f64 is kept as the exact fraction <<numerator, denominator>>
Zero == <<0, 1>>
\* Duration::as_secs_f64
as_secs_f64(ms) == <<ms, 1000>>
\* x / n as f64
Div(x, n) == <<x[1], x[2] * n>>
Same(x, y) == x[1] * y[2] = y[1] * x[2]
\* b.1.total_cmp(&a.1) is not Greater: a is not below b
NotBelow(a, b) == a[1] * b[2] >= b[1] * a[2]

RECURSIVE SumDurations(_)
\* v.iter().sum::<Duration>()
SumDurations(v) == IF v = <<>> THEN 0 ELSE Head(v) + SumDurations(Tail(v))

RECURSIVE InsertDuration(_, _)
InsertDuration(x, v) ==
    IF v = <<>> THEN <<x>>
    ELSE IF x <= Head(v) THEN <<x>> \o v
    ELSE <<Head(v)>> \o InsertDuration(x, Tail(v))

RECURSIVE SortedDurations(_)
\* v.sort()
SortedDurations(v) ==
    IF v = <<>> THEN <<>> ELSE InsertDuration(Head(v), SortedDurations(Tail(v)))

\* lines 39-40: let mut v = v.clone(); v.sort();
SortClone_unsorted(v) == v
SortClone(v) == SortedDurations(v)

\* lines 43-54, on the sorted clone
MedianOfSorted(v) ==
    IF Len(v) % 2 = 0
    THEN LET middle == Len(v) \div 2
         IN  IF middle >= 1
             THEN Div(as_secs_f64(v[middle] + v[middle + 1]), 2)
             ELSE Zero
    ELSE IF v # <<>> THEN as_secs_f64(v[Len(v) \div 2 + 1]) ELSE Zero

\* data.iter(): the keys in the BTreeMap's order
Keys(map) == SelectSeq(LabelOrder, LAMBDA k : k \in DOMAIN map)

\* data.iter().map(|(k, v)| (k.as_str(), ..)).collect::<Vec<_>>(), given the
\* value of every key
MapCollect(values) ==
    [i \in 1..Len(Keys(values)) |-> <<Keys(values)[i], values[Keys(values)[i]]>>]

\* sort_unstable_by(|a, b| b.1.total_cmp(&a.1)): the entries by value, largest
\* first; entries of equal value come out in an order the sort does not
\* promise, so every such order is a possible result
SortUnstableDescending_none(s) == {s}
SortUnstableDescending(s) ==
    LET n == Len(s)
        perms == {p \in [1..n -> 1..n] : \A i, j \in 1..n : i # j => p[i] # p[j]}
    IN  {[i \in 1..n |-> s[p[i]]] : p \in
            {q \in perms : \A i, j \in 1..n :
                i < j => NotBelow(s[q[i]][2], s[q[j]][2])}}

calculate_sum(map) ==
    SortUnstableDescending(
        MapCollect([k \in DOMAIN map |-> as_secs_f64(SumDurations(map[k]))]))

calculate_avg(map, count) ==
    SortUnstableDescending(
        MapCollect([k \in DOMAIN map |->
                       Div(as_secs_f64(SumDurations(map[k])), count)]))

calculate_median(map) ==
    SortUnstableDescending(
        MapCollect([k \in DOMAIN map |-> MedianOfSorted(SortClone(map[k]))]))

RECURSIVE SeqsUpTo(_, _)
\* the sequences over a set of values, of length 0..n
SeqsUpTo(values, n) ==
    IF n = 0 THEN {<<>>}
    ELSE LET shorter == SeqsUpTo(values, n - 1)
         IN  shorter \cup {Append(v, x) : v \in shorter, x \in values}

\* the maps of the tests of utils.rs, lines 66-134
TestData ==
    LET odd == <<1000, 15000, 40000, 2000, 4000>>
        even == <<5000, 1000, 15000, 40000, 2000, 4000>>
        other == <<4000, 10000, 1000, 20000, 41000>>
    IN  { EmptyMap,
          [k \in {"time_back"} |-> odd],
          [k \in {"time_back"} |-> even],
          [k \in {"time_back", "something-else"} |->
              IF k = "time_back" THEN even ELSE other] }

\* a call of one function of utils.rs on a map
InitUtils ==
    /\ ProcessInit
    /\ SettingsClosed
    /\ LocksOff
    /\ h_pc = "off"
    /\ entries = <<>>
    /\ next_entry = 1
    /\ result = EmptyMap
    /\ file_count \in 1..MaxFiles
    /\ sum_chart = <<>>
    /\ avg_chart = <<>>
    /\ median_chart = <<>>
    /\ u_pc = "call"
    /\ data \in TestData \cup
           UNION {[ks -> SeqsUpTo(SampleDurations, MaxLen)] : ks \in SUBSET StatLabels}
    /\ result_sum = <<>>
    /\ result_avg = <<>>
    /\ result_median = <<>>

CalculateSum ==
    /\ u_pc = "call"
    /\ result_sum' \in calculate_sum(data)
    /\ u_pc' = "sum"
    /\ UNCHANGED <<data, result_avg, result_median>>
    /\ UNCHANGED <<process_vars, aggregator_vars, settings_vars, lock_vars>>

CalculateAvg ==
    /\ u_pc = "call"
    /\ result_avg' \in calculate_avg(data, file_count)
    /\ u_pc' = "avg"
    /\ UNCHANGED <<data, result_sum, result_median>>
    /\ UNCHANGED <<process_vars, aggregator_vars, settings_vars, lock_vars>>

CalculateMedian ==
    /\ u_pc = "call"
    /\ result_median' \in calculate_median(data)
    /\ u_pc' = "median"
    /\ UNCHANGED <<data, result_sum, result_avg>>
    /\ UNCHANGED <<process_vars, aggregator_vars, settings_vars, lock_vars>>

NextUtils ==
    \/ CalculateSum
    \/ CalculateAvg
    \/ CalculateMedian

SpecUtils == InitUtils /\ [][NextUtils]_vars

\* ------------------------------------- history, collect_previous_data
\* an entry of the directory whose File::open fails
UnopenableFile == [kind |-> "unopenable", json |-> EmptyMap]
\* an Err item of the iterator of read_dir
EntryError == [kind |-> "error", json |-> EmptyMap]

\* what an entry of the output directory can be
DirectoryFiles ==
    {MapFile(m) : m \in UNION {[ks -> SampleDurations] : ks \in SUBSET StatLabels}}
        \cup {CorruptFile, UnopenableFile, EntryError}

\* std::path::MAIN_SEPARATOR of the platform the program is built for
MainSeparators == {"/", "\\"}

\* lines 206-207: entry.path().to_str(); the path of a DirEntry is the path
\* given to read_dir joined with the entry's name by the platform's separator.
\* A path is kept as the sequence of its pieces.
EntryPath(dir, separator, name) == <<dir, separator, name>>

\* line 201: output_directory.to_owned() + "/" + current_file
CurrentFilePath(output_directory, current_file) ==
    <<output_directory, "/", current_file>>

\* the directories of n entries in the order read_dir lists them; entry c, if
\* any, is the file of today (its name is current_file), the others are files
\* of other days
Directories(n, output_directory, current_file) ==
    {[i \in 1..n |->
         [name |-> IF i = c THEN current_file ELSE current_file + i,
          path |-> EntryPath(output_directory, separator,
                             IF i = c THEN current_file ELSE current_file + i),
          file |-> fs[i]]] :
        c \in 0..n, fs \in [1..n -> DirectoryFiles], separator \in MainSeparators}

\* lines 39-44: the stored configuration names an output directory, and
\* collect_previous_data(output_directory, &file_name) is called
InitHistory ==
    /\ ProcessInitStored(EmptyMap)
    /\ UtilsOff
    /\ SettingsClosed
    /\ LocksOff
    /\ h_pc = "read_dir"
    /\ \E n \in 0..MaxFiles :
           entries \in Directories(n, config.output_directory[1], file_name)
    /\ next_entry = 1
    /\ result = EmptyMap
    /\ file_count = 0
    /\ sum_chart = <<>>
    /\ avg_chart = <<>>
    /\ median_chart = <<>>

\* line 204: read_dir(..)?; an Err leaves collect_previous_data at once, and
\* unwrap_or_default() of line 44 gives three empty charts
ReadDir(ok) ==
    /\ h_pc = "read_dir"
    /\ h_pc' = IF ok THEN "scan" ELSE "failed"
    /\ UNCHANGED <<entries, next_entry, result, file_count,
                   sum_chart, avg_chart, median_chart>>
    /\ UNCHANGED <<process_vars, utils_vars, settings_vars, lock_vars>>

\* lines 210-211: serde_json::from_reader(f).unwrap_or_default()
ParseFile(file) == IF file.kind = "map" THEN FromJson(file.json) ELSE EmptyMap

\* lines 212-214: result.entry(k).or_default().push(v) for every (k, v)
PushAll(lists, map) ==
    [k \in DOMAIN lists \cup DOMAIN map |->
        IF k \in DOMAIN map
        THEN Append(IF k \in DOMAIN lists THEN lists[k] ELSE <<>>, map[k])
        ELSE lists[k]]

\* line 215, inside the if let Ok(f) of line 209
FileCountAfter_parsed(count, file) ==
    IF file.kind = "map" THEN count + 1 ELSE count
FileCountAfter(count, file) == count + 1

\* lines 204-217: one turn of the for loop
ScanEntry ==
    /\ h_pc = "scan"
    /\ next_entry <= Len(entries)
    /\ LET entry == entries[next_entry]
       IN  IF entry.file.kind = "error"
           THEN /\ h_pc' = "failed"
                /\ UNCHANGED <<next_entry, result, file_count>>
           ELSE /\ h_pc' = "scan"
                /\ next_entry' = next_entry + 1
                /\ IF /\ CurrentFilePath(config.output_directory[1], file_name)
                           # entry.path
                      /\ entry.file.kind # "unopenable"
                   THEN /\ result' = PushAll(result, ParseFile(entry.file))
                        /\ file_count' = FileCountAfter(file_count, entry.file)
                   ELSE UNCHANGED <<result, file_count>>
    /\ UNCHANGED <<entries, sum_chart, avg_chart, median_chart>>
    /\ UNCHANGED <<process_vars, utils_vars, settings_vars, lock_vars>>

\* line 223
SumBar(v) == as_secs_f64(SumDurations(v))

\* lines 230-233
AverageBar_len(v, count) == Div(as_secs_f64(SumDurations(v)), Len(v))
AverageBar(v, count) == Div(as_secs_f64(SumDurations(v)), count)

\* lines 243-254: the list as the scan pushed it, the parity of file_count
MedianBar(v, count) ==
    IF count % 2 = 0
    THEN LET middle == Len(v) \div 2
         IN  IF middle >= 1
             THEN Div(as_secs_f64(v[middle] + v[middle + 1]), 2)
             ELSE Zero
    ELSE IF v # <<>> THEN as_secs_f64(v[Len(v) \div 2 + 1]) ELSE Zero

\* lines 219-259: the three Vec<Bar>, one Bar per label in the order of the
\* BTreeMap, kept as <<name, value>>
CollectCharts ==
    /\ h_pc = "scan"
    /\ next_entry > Len(entries)
    /\ sum_chart' = MapCollect([k \in DOMAIN result |-> SumBar(result[k])])
    /\ avg_chart' =
           MapCollect([k \in DOMAIN result |-> AverageBar(result[k], file_count)])
    /\ median_chart' =
           MapCollect([k \in DOMAIN result |-> MedianBar(result[k], file_count)])
    /\ h_pc' = "done"
    /\ UNCHANGED <<entries, next_entry, result, file_count>>
    /\ UNCHANGED <<process_vars, utils_vars, settings_vars, lock_vars>>

NextHistory ==
    \/ \E ok \in BOOLEAN : ReadDir(ok)
    \/ ScanEntry
    \/ CollectCharts

\* the scan of the output directory at startup
SpecHistory == InitHistory /\ [][NextHistory]_vars

\* ------------------------------------------- a write, call by call
\* File::create and serde_json::to_writer are two calls, and to_writer hands
\* the file one small write after another.  The sampler and Drop open the same
\* path without any lock between them, each with its own offset: when the
\* other thread has created or written the file since this thread created
\* it, or still has it open, the bytes on disk can be a mix of both writers
\* and of the holes a truncation leaves, whatever to_writer returns.
Interfered(fs, f, other_open) == fs[f] # TruncatedFile \/ other_open

\* what to_writer leaves in the file
Written(map, outcome, torn) ==
    IF outcome = "ok" /\ ~torn THEN MapFile(map) ELSE CorruptFile

\* lines 142-144 and 150: File::create of the periodic flush
SamplerCreate(ok) ==
    /\ phase = "running"
    /\ s_pc = "write"
    /\ config.output_directory # None
    /\ IF ok
       THEN /\ files' = [files EXCEPT
                  ![<<config.output_directory[1], PeriodicFileName>>] = TruncatedFile]
            /\ s_pc' = "writing"
            /\ UNCHANGED flush_result
       ELSE /\ flush_result' = "create_failed"
            /\ s_pc' = AfterPeriodicFlush("create_failed")
            /\ UNCHANGED files
    /\ UNCHANGED <<phase, today, config, window_time, file_name, ticks,
                   last_input_elapsed, last_save_elapsed, mouse_position,
                   active_window>>
    /\ UNCHANGED <<display_vars, persisted, loaded, credits, drop_result>>
    /\ UNCHANGED <<statistics_vars, settings_vars, lock_vars>>

\* lines 145-149: serde_json::to_writer of the periodic flush
SamplerWrite(outcome, torn) ==
    /\ phase = "running"
    /\ s_pc = "writing"
    /\ LET f == <<config.output_directory[1], PeriodicFileName>>
       IN  /\ torn => Interfered(files, f, d_pc = "drop_writing"
                                            /\ generate_file_name = PeriodicFileName)
           /\ files' = [files EXCEPT ![f] = Written(window_time, outcome, torn)]
    /\ flush_result' = outcome
    /\ s_pc' = AfterPeriodicFlush(outcome)
    /\ UNCHANGED <<phase, today, config, window_time, file_name, ticks,
                   last_input_elapsed, last_save_elapsed, mouse_position,
                   active_window>>
    /\ UNCHANGED <<display_vars, persisted, loaded, credits, drop_result>>
    /\ UNCHANGED <<statistics_vars, settings_vars, lock_vars>>

\* lines 296-300: File::create of Drop
DropCreate(ok) ==
    /\ phase = "running"
    /\ d_pc = "drop_write"
    /\ config.output_directory # None
    /\ IF ok
       THEN /\ files' = [files EXCEPT
                  ![<<config.output_directory[1], generate_file_name>>] = TruncatedFile]
            /\ d_pc' = "drop_writing"
            /\ UNCHANGED <<phase, config, window_time, file_name, close, d_data>>
            /\ UNCHANGED <<sampler_vars, history_vars, settings_vars>>
       ELSE /\ drop_result' = "create_failed"
            /\ AfterDrop(DropPanics("create_failed"))
            /\ UNCHANGED files
    /\ UNCHANGED <<today, persisted>>
    /\ UNCHANGED <<statistics_vars, lock_vars>>

\* lines 298-303: serde_json::to_writer of Drop, and the unwrap of its result
DropWrite(outcome, torn) ==
    /\ phase = "running"
    /\ d_pc = "drop_writing"
    /\ LET f == <<config.output_directory[1], generate_file_name>>
       IN  /\ torn => Interfered(files, f, s_pc = "writing"
                                            /\ PeriodicFileName = generate_file_name)
           /\ files' = [files EXCEPT ![f] = Written(d_data, outcome, torn)]
    /\ drop_result' = outcome
    /\ AfterDrop(DropPanics(outcome))
    /\ UNCHANGED <<today, persisted>>
    /\ UNCHANGED <<statistics_vars, lock_vars>>

SamplerByCall ==
    \/ \E d \in LifeDurations, keys \in BOOLEAN, query \in WindowQueries :
          SamplerTick(d, StillMouse, keys, AppNameOf(query))
    \/ SamplerFlushSkip
    \/ \E ok \in BOOLEAN : SamplerCreate(ok)
    \/ \E outcome \in {"ok", "write_failed"}, torn \in BOOLEAN :
          SamplerWrite(outcome, torn)

DisplayByCall ==
    \/ \E choice \in OptionDirs : DisplayInitialSelect(choice)
    \/ DisplayClose
    \/ DisplayWindowClosed
    \/ DropSnapshot
    \/ DropSkip
    \/ \E ok \in BOOLEAN : DropCreate(ok)
    \/ \E outcome \in {"ok", "write_failed"}, torn \in BOOLEAN :
          DropWrite(outcome, torn)
    \/ DisplayExit
    \/ DisplayNewWindow
    \/ DisplayRunFailed

NextFlush ==
    \/ SamplerByCall
    \/ DisplayByCall
    \/ \E load_ok \in BOOLEAN : Restart(load_ok)

\* the life of the process with every write taken call by call
SpecFlush == Init /\ [][NextFlush]_vars

\* ------------------------------------------------ the Settings window
\* the folders the dialog of the Settings window can answer with
SettingsDirs == Dirs \cup {"d2"}
SettingsChoices == {None} \cup {Some(d) : d \in SettingsDirs}
\* egui reports one click in a frame, for the widget under the pointer
SettingsClicks == {"select", "accept"}

\* lines 319-323: "Settings" is drawn while the config has an output
\* directory, and a click on it opens the window
DisplaySettingsOpen ==
    /\ phase = "running"
    /\ d_pc = "idle"
    /\ config.output_directory # None
    /\ ~settings_open
    /\ settings_open' = TRUE
    /\ UNCHANGED <<selected, accepted>>
    /\ UNCHANGED <<phase, today, config, window_time, file_name>>
    /\ UNCHANGED <<sampler_vars, display_vars, disk_vars, history_vars>>
    /\ UNCHANGED <<statistics_vars, lock_vars>>

\* lines 435-436: .open(&mut self.settings_open), the window's close button
DisplaySettingsClose ==
    /\ phase = "running"
    /\ d_pc = "idle"
    /\ settings_open
    /\ settings_open' = FALSE
    /\ selected' = None
    /\ accepted' = FALSE
    /\ UNCHANGED <<phase, today, config, window_time, file_name>>
    /\ UNCHANGED <<sampler_vars, display_vars, disk_vars, history_vars>>
    /\ UNCHANGED <<statistics_vars, lock_vars>>

\* lines 319-320 and 439-442: the Config display_configuration is given is
\* this frame's clone of the shared one; "Select output directory" puts the
\* dialog's answer into the clone
SettingsClone(cfg, click, choice) ==
    IF click = "select" THEN [cfg EXCEPT !.output_directory = choice] ELSE cfg

\* lines 319-327: the shared config after the frame; the clone is a local of
\* update() and is dropped with it
SharedAfterSettings(cfg, clone) == cfg

\* lines 319-327 and 434-465: a frame with the Settings window open and one
\* of its two buttons clicked; Accept stores the frame's clone
DisplaySettings(click, choice, store_ok) ==
    /\ phase = "running"
    /\ d_pc = "idle"
    /\ settings_open
    /\ LET clone == SettingsClone(config, click, choice)
       IN  /\ persisted' = IF click = "accept"
                           THEN Store(persisted, clone, store_ok)
                           ELSE persisted
           /\ config' = SharedAfterSettings(config, clone)
    /\ selected' = IF click = "select" /\ choice # None THEN choice ELSE selected
    /\ accepted' = IF click = "accept" THEN selected # None
                   ELSE IF choice # None THEN FALSE ELSE accepted
    /\ UNCHANGED <<phase, today, window_time, file_name, files, settings_open>>
    /\ UNCHANGED <<sampler_vars, display_vars, history_vars>>
    /\ UNCHANGED <<statistics_vars, lock_vars>>

InitSettings == InitStored(EmptyMap)

NextSettings ==
    \/ \E d \in LifeDurations, keys \in BOOLEAN, query \in WindowQueries :
          SamplerTick(d, StillMouse, keys, AppNameOf(query))
    \/ \E outcome \in FlushOutcomes : SamplerFlush(outcome)
    \/ \E n \in Labels, store_ok \in BOOLEAN : DisplayToggle(n, store_ok)
    \/ DisplaySettingsOpen
    \/ \E click \in SettingsClicks, choice \in SettingsChoices,
          store_ok \in BOOLEAN : DisplaySettings(click, choice, store_ok)
    \/ DisplaySettingsClose

\* a configured process whose user works in the Settings window while the
\* sampler ticks and flushes
SpecSettings == InitSettings /\ [][NextSettings]_vars

\* ------------------------------------------------- the two mutexes
\* Every lock() and every end of a guard's life is a step of its own.  A
\* routine is the list of them in the order its thread comes to them; "line"
\* is where the statement stands in main.rs.
Lock(m, line) == [op |-> "lock", mutex |-> m, line |-> line]
Unlock(m, line) == [op |-> "unlock", mutex |-> m, line |-> line]

\* lines 114-131: the guard of window_time lives to the end of the if let, the
\* guard of config to the end of the statement of lines 115-119
SamplerAttribution ==
    << Lock("window_time", 114), Lock("config", 116),
       Unlock("config", 119), Unlock("window_time", 131) >>

\* lines 135-140: each guard is gone with its statement
SamplerPeriodicFlush ==
    << Lock("window_time", 135), Unlock("window_time", 135),
       Lock("config", 136), Unlock("config", 140) >>

\* lines 319 and 335-344 of update(): the clone for the Settings window, then
\* the test of output_directory, with display_initial_configuration under
\* the guard
DisplayFrame ==
    << Lock("config", 319), Unlock("config", 319),
       Lock("config", 335), Unlock("config", 344) >>

\* lines 365-366: if let Ok(map) = self.window_time.lock(), and inside it
\* if let Ok(mut config) = self.config.lock()
TableLockOrder_config_first == <<"config", "window_time">>
TableLockOrder == <<"window_time", "config">>

\* lines 365-409 of display_main_ui: the table is drawn under both guards,
\* which end in the reverse order
DisplayTable ==
    << Lock(TableLockOrder[1], 365), Lock(TableLockOrder[2], 366),
       Unlock(TableLockOrder[2], 408), Unlock(TableLockOrder[1], 409) >>

\* lines 290-295 of Drop
DropLocks ==
    << Lock("window_time", 290), Unlock("window_time", 290),
       Lock("config", 291), Unlock("config", 295) >>

Routine(name) ==
    CASE name = "attribution" -> SamplerAttribution
      [] name = "flush" -> SamplerPeriodicFlush
      [] name = "frame" -> DisplayFrame
      [] name = "table" -> DisplayTable
      [] name = "drop" -> DropLocks
      [] OTHER -> <<>>

\* the statement a thread is at, if its routine has one left
AtStatement(t) == l_pc[t][2] <= Len(Routine(l_pc[t][1]))
Statement(t) == Routine(l_pc[t][1])[l_pc[t][2]]

Holds(t) == {held[t][i] : i \in 1..Len(held[t])}
\* Mutex::lock blocks while any guard of the mutex is alive, the caller's own
\* included
Free(m) == \A u \in Threads : m \notin Holds(u)

\* the state the process starts its two threads in
InitLocks ==
    /\ ProcessInit
    /\ StatisticsOff
    /\ SettingsClosed
    /\ held = [t \in Threads |-> <<>>]
    /\ l_pc = [t \in Threads |->
                  IF t = "sampler" THEN <<"attribution", 1>> ELSE <<"frame", 1>>]

lock_frame_vars == <<phase, today, window_time, file_name, sampler_vars,
                     d_pc, d_data, disk_vars, history_vars>>

\* one lock() that returns, or the end of one guard; the guard of line 335
\* covers display_initial_configuration, which puts the dialog's answer into
\* the config (lines 336-337 and 469-472)
LockStep(t, choice) ==
    /\ l_pc[t][1] # "exited"
    /\ AtStatement(t)
    /\ LET st == Statement(t)
       IN  /\ IF st.op = "lock"
              THEN /\ Free(st.mutex)
                   /\ held' = [held EXCEPT ![t] = Append(@, st.mutex)]
              ELSE held' = [held EXCEPT
                               ![t] = SelectSeq(@, LAMBDA m : m # st.mutex)]
           /\ config' = IF st = Unlock("config", 344)
                            /\ config.output_directory = None
                         THEN [config EXCEPT !.output_directory = choice]
                         ELSE config
    /\ l_pc' = [l_pc EXCEPT ![t] = <<@[1], @[2] + 1>>]
    /\ UNCHANGED <<lock_frame_vars, close>>
    /\ UNCHANGED <<statistics_vars, settings_vars>>

\* lines 133-154 and 88-89: after the attribution the flush, when it is due,
\* and then the next turn of the loop
SamplerGoesOn(due) ==
    /\ l_pc["sampler"][1] # "exited"
    /\ ~AtStatement("sampler")
    /\ l_pc' = [l_pc EXCEPT !["sampler"] =
                    IF @[1] = "attribution" /\ due
                    THEN <<"flush", 1>> ELSE <<"attribution", 1>>]
    /\ UNCHANGED <<lock_frame_vars, close, config, held>>
    /\ UNCHANGED <<statistics_vars, settings_vars>>

\* lines 345-349: the table when an output directory is configured; then the
\* frame is over, and the next one comes, or the window closes (with or
\* without the Close button of lines 328-331) and the TimeBack is dropped
DisplayGoesOn(closes, clicked) ==
    /\ l_pc["display"][1] \in {"frame", "table"}
    /\ ~AtStatement("display")
    /\ IF l_pc["display"][1] = "frame" /\ config.output_directory # None
       THEN /\ l_pc' = [l_pc EXCEPT !["display"] = <<"table", 1>>]
            /\ UNCHANGED close
       ELSE /\ l_pc' = [l_pc EXCEPT !["display"] =
                           IF closes THEN <<"drop", 1>> ELSE <<"frame", 1>>]
            /\ close' = (close \/ (closes /\ clicked))
    /\ UNCHANGED <<lock_frame_vars, config, held>>
    /\ UNCHANGED <<statistics_vars, settings_vars>>

\* lines 183-186: after the Drop, main returns when the flag is set, and the
\* process ends with it; otherwise a new window
AfterDropLocks ==
    /\ l_pc["display"][1] = "drop"
    /\ ~AtStatement("display")
    /\ IF close
       THEN /\ l_pc' = [t \in Threads |-> <<"exited", 1>>]
            /\ held' = [t \in Threads |-> <<>>]
       ELSE /\ l_pc' = [l_pc EXCEPT !["display"] = <<"frame", 1>>]
            /\ UNCHANGED held
    /\ UNCHANGED <<lock_frame_vars, close, config>>
    /\ UNCHANGED <<statistics_vars, settings_vars>>

NextLocks ==
    \/ \E t \in Threads, choice \in OptionDirs : LockStep(t, choice)
    \/ \E due \in BOOLEAN : SamplerGoesOn(due)
    \/ \E closes \in BOOLEAN, clicked \in BOOLEAN : DisplayGoesOn(closes, clicked)
    \/ AfterDropLocks

\* the sampler thread and the display thread, lock by lock
SpecLocks == InitLocks /\ [][NextLocks]_vars

\* ------------------------------------------------------------- claims
\* a step that is one tick of the sampler
IsTick == ticks' = ticks + 1
\* the tick credited the active application with the tick duration
Credited ==
    Get(window_time', active_window')
        = Get(window_time, active_window') + check_duration
Failed == {"create_failed", "write_failed"}

\* C1: a tick whose gap since the last input is at most SHORT_GAP (5 s, the
\* boundary included) credits the active application with the tick duration,
\* in the long-tracking set or not.
C1_ShortGapCredited ==
    [][(IsTick /\ last_input_elapsed' <= small_gap_between_input) => Credited]_vars

\* a first tick exactly 5 s after the last input, credited to an application
\* that is not long-tracked
C1_Witness ==
    /\ ticks = 1
    /\ last_input_elapsed = small_gap_between_input
    /\ config.processes_with_longer_tracking = {}
    /\ Get(window_time, active_window) = check_duration

\* C2: a tick whose gap is above SHORT_GAP and at most LONG_GAP (10 min)
\* credits the active application if and only if its label is in
\* processes_with_longer_tracking at that tick.
C2_MiddleGapCreditsLongOnly ==
    [][(/\ IsTick
        /\ last_input_elapsed' > small_gap_between_input
        /\ last_input_elapsed' <= long_gap_between_input)
       => (Credited <=> active_window' \in config.processes_with_longer_tracking)
      ]_vars

\* a long-tracked application credited in a second tick, 5.05 s after the
\* last input
C2_Witness ==
    /\ ticks = 2
    /\ last_input_elapsed = small_gap_between_input + check_duration
    /\ active_window \in config.processes_with_longer_tracking
    /\ Get(window_time, active_window) = 2 * check_duration

\* C3: a tick whose gap is above LONG_GAP credits no application, the
\* long-tracked ones included.
C3_LongGapNotCredited ==
    [][(IsTick /\ last_input_elapsed' > long_gap_between_input)
       => window_time' = window_time]_vars

\* a long-tracked application, credited in the first tick, left uncredited in
\* the second, 10 min 50 ms after the last input
C3_Witness ==
    /\ ticks = 2
    /\ last_input_elapsed = long_gap_between_input + check_duration
    /\ active_window \in config.processes_with_longer_tracking
    /\ credits[active_window] = 1
    /\ Get(window_time, active_window) = check_duration

\* C4: every tick decides by the membership the shared config holds at that
\* tick, so the first tick after a toggle of the display uses the new
\* membership.
C4_TickUsesCurrentMembership ==
    [][IsTick =>
        (Credited <=>
            last_input_elapsed' <=
                (IF active_window' \in config.processes_with_longer_tracking
                 THEN long_gap_between_input ELSE small_gap_between_input))
      ]_vars

\* the display toggled "a" after its first credited tick, and the next tick,
\* 10 min after the last input, credited it
C4_Witness ==
    /\ ticks = 2
    /\ active_window = "a"
    /\ config.processes_with_longer_tracking = {"a"}
    /\ last_input_elapsed = long_gap_between_input
    /\ credits["a"] = 2

\* C5: while the process runs, the value stored for a label is the value
\* loaded at startup plus the tick duration times the ticks credited to it,
\* and the keys are the loaded ones and the credited ones.
C5_NoLostIncrement ==
    phase = "running" =>
        /\ \A l \in Labels :
               Get(window_time, l) = Get(loaded, l) + check_duration * credits[l]
        /\ DOMAIN window_time = DOMAIN loaded \cup {l \in Labels : credits[l] > 0}

\* a label loaded with 50 ms from today's file and credited once since, while
\* the display is in its Drop
C5_Witness ==
    /\ phase = "running"
    /\ d_pc = "drop_write"
    /\ \E l \in Labels : /\ Get(loaded, l) = check_duration
                         /\ credits[l] = 1
                         /\ Get(window_time, l) = 2 * check_duration

\* C6: while the process runs, no step of the sampler or of the display
\* removes a key of window_time or lowers a stored duration.
C6_StoreOnlyGrows ==
    [][(phase = "running" /\ phase' = "running") =>
        \A k \in DOMAIN window_time :
            /\ k \in DOMAIN window_time'
            /\ window_time'[k] >= window_time[k]]_vars

\* two labels in the store after two credited ticks
C6_Witness ==
    /\ phase = "running"
    /\ DOMAIN window_time = Labels
    /\ \A l \in Labels : credits[l] = 1

\* C7 (as claimed): a complete write of a daily file never lowers a persisted
\* duration and never loses a label the file held.
C7_FileMonotone ==
    [][\A f \in DOMAIN files :
        (files[f].kind = "map" /\ files'[f].kind = "map") =>
            \A k \in DOMAIN files[f].json :
                /\ k \in DOMAIN files'[f].json
                /\ DurationFromJson(files'[f].json[k])
                       >= DurationFromJson(files[f].json[k])]_vars

\* C8 (as claimed): every write of a flush goes to the file named after the
\* date current at the time of the write.
C8_FlushWritesTodaysFile ==
    [][\A f \in DOMAIN files : files'[f] # files[f] => f[2] = today]_vars

\* C9: a failed periodic flush leaves window_time as it was and the sampler
\* in its loop, and after it a tick whose sleep makes the flush due again
\* attempts it again.
C9_FailedFlushKeepsSampling ==
    [][/\ (/\ phase = "running" /\ phase' = "running"
           /\ s_pc = "write" /\ s_pc' # "write"
           /\ flush_result' \in Failed)
          => /\ window_time' = window_time
             /\ s_pc' = "sleep"
             /\ last_save_elapsed' = last_save_elapsed
       /\ (IsTick /\ flush_result \in Failed)
          => (s_pc' = "write" \/ ~SaveDue(last_save_elapsed'))]_vars

\* after a failed flush the sampler has ticked again and is about to write
C9_Witness ==
    /\ phase = "running"
    /\ flush_result \in Failed
    /\ ticks = 2
    /\ s_pc = "write"

\* C10: the write half of Drop, with an output directory, attempts the write
\* of its clone of the store to today's file whatever last_save is, and
\* panics when the file cannot be created; without an output directory it
\* writes nothing and does not panic.
C10_DropFlushes ==
    [][(/\ phase = "running" /\ d_pc = "drop_write"
        /\ (phase' # "running" \/ d_pc' # "drop_write"))
       => IF config.output_directory = None
          THEN /\ files' = files
               /\ phase' = "running"
               /\ drop_result' = "skipped"
          ELSE /\ drop_result' \in FlushOutcomes
               /\ drop_result' = "create_failed"
                    => (phase' = "panicked" /\ files' = files)
               /\ drop_result' = "ok"
                    => /\ phase' = "running"
                       /\ files' = [files EXCEPT
                              ![<<config.output_directory[1], today>>]
                                  = MapFile(d_data)]]_vars

\* a Drop whose file could not be created has ended the process
C10_Witness ==
    /\ phase = "panicked"
    /\ drop_result = "create_failed"

\* C11: while no output directory is configured, no step of the process
\* creates or writes a file: a due periodic flush and the write half of Drop
\* are skipped and leave the thread running; the sampler goes on ticking, and
\* a tick within the short gap is credited in memory.
C11_UnconfiguredWritesNothing ==
    [][(phase = "running" /\ config.output_directory = None)
       => /\ files' = files
          /\ (s_pc = "write" /\ s_pc' # "write" /\ phase' = "running")
                => (s_pc' = "sleep" /\ flush_result' = "skipped")
          /\ (d_pc = "drop_write" /\ d_pc' # "drop_write")
                => (phase' = "running" /\ drop_result' = "skipped")
          /\ (IsTick /\ last_input_elapsed' <= small_gap_between_input)
                => Credited]_vars

\* unconfigured: the flush was due and skipped, Drop has run and was skipped,
\* two ticks are in the store and no file exists
C11_Witness ==
    /\ phase = "running"
    /\ config.output_directory = None
    /\ flush_result = "skipped"
    /\ drop_result = "skipped"
    /\ ticks = 2
    /\ \E l \in Labels : Get(window_time, l) = 2 * check_duration
    /\ \A f \in DOMAIN files : files[f] = AbsentFile

\* C12 (as claimed): when the to_writer of a periodic flush returns Ok, the
\* daily file holds one full copy of the store as it was during the flush,
\* and nothing else.
C12_FlushLeavesOneCopy ==
    [][(/\ phase = "running" /\ phase' = "running"
        /\ s_pc = "writing" /\ s_pc' = "sleep"
        /\ flush_result' = "ok")
       => files'[<<config.output_directory[1], file_name>>]
              = MapFile(window_time)]_vars

\* C13: a map written to today's file by a periodic flush or by Drop is the
\* map the startup code loads from that file, and a startup loads the store
\* from today's file that way: written and read back, every label and every
\* duration is the same.
C13_RoundTrip ==
    [][/\ (/\ s_pc = "write" /\ s_pc' = "sleep" /\ phase' = "running"
           /\ flush_result' = "ok")
          => LoadData(config, files', file_name) = window_time
       /\ (d_pc = "drop_write" /\ d_pc' = "dropped" /\ drop_result' = "ok")
          => LoadData(config, files', generate_file_name) = d_data
       /\ (phase # "running" /\ phase' = "running")
          => window_time' = LoadData(config', files, generate_file_name)]_vars

\* the file held 5.05 s for "a" and 0 for the empty label; a tick was
\* credited, the store was written, and the next start has loaded 5.1 s and 0
C13_Witness ==
    /\ phase = "running"
    /\ ticks >= 1
    /\ DOMAIN loaded = Labels
    /\ loaded["a"] = 5050 + check_duration
    /\ loaded[EmptyLabel] = 0
    /\ window_time = loaded

\* C14: a tick whose active-window query fails is a whole tick: it counts,
\* the sampler goes on to the flush test, the active label is the empty
\* string, the threshold is the one the empty label has in the config, and
\* when the gap is within it the tick duration goes to the empty-string key
\* (and otherwise the store is unchanged).
C14_FailedQueryUsesEmptyLabel ==
    [][\A d \in SleepDurations, mouse \in MouseStates(MousePositions),
          keys \in BOOLEAN :
        SamplerTick(d, mouse, keys, AppNameOf(QueryFailed))
        => /\ ticks' = ticks + 1
           /\ s_pc' \in {"sleep", "write"}
           /\ active_window' = EmptyLabel
           /\ IF last_input_elapsed'
                   <= (IF EmptyLabel \in config.processes_with_longer_tracking
                       THEN long_gap_between_input
                       ELSE small_gap_between_input)
              THEN /\ EmptyLabel \in DOMAIN window_time'
                   /\ window_time'[EmptyLabel]
                          = Get(window_time, EmptyLabel) + check_duration
                   /\ \A k \in DOMAIN window_time \ {EmptyLabel} :
                          k \in DOMAIN window_time' /\ window_time'[k] = window_time[k]
              ELSE window_time' = window_time]_vars

\* two ticks with a failed query: the first credited the empty label, the
\* display marked it long-tracked, and the second credited it 5 s after the
\* last input
C14_Witness ==
    /\ ticks = 2
    /\ active_window = EmptyLabel
    /\ EmptyLabel \in config.processes_with_longer_tracking
    /\ last_input_elapsed = small_gap_between_input + check_duration
    /\ DOMAIN window_time = {EmptyLabel}
    /\ window_time[EmptyLabel] = 2 * check_duration

\* C15 (as claimed): in a tick, a moved mouse, a pressed mouse button and a
\* pressed key each reset last_input to the time of the tick, and a tick with
\* none of them leaves last_input where it was.
C15_EveryInputResets ==
    [][\A d \in SleepDurations, mouse \in MouseStates(MousePositions),
          keys \in BOOLEAN, query \in WindowQueries :
        SamplerTick(d, mouse, keys, AppNameOf(query))
        => last_input_elapsed' =
               IF \/ mouse.coords # mouse_position
                  \/ mouse.button_pressed
                  \/ keys
               THEN 0
               ELSE last_input_elapsed + d]_vars

\* the k-th smallest value of a list, by counting: fewer than k values are
\* below it and at least k are not above it
KthSmallest(v, k) ==
    CHOOSE x \in {v[i] : i \in 1..Len(v)} :
        /\ Cardinality({i \in 1..Len(v) : v[i] < x}) < k
        /\ Cardinality({i \in 1..Len(v) : v[i] <= x}) >= k

\* the median of a list of durations, in seconds: of no order of the list
MedianOf(v) ==
    LET n == Len(v)
    IN  IF n = 0 THEN Zero
        ELSE IF n % 2 = 1 THEN as_secs_f64(KthSmallest(v, (n + 1) \div 2))
        ELSE Div(as_secs_f64(KthSmallest(v, n \div 2)
                             + KthSmallest(v, n \div 2 + 1)), 2)

\* C16: calculate_median gives every label of the map the median of its
\* durations: the central value of an odd list, the mean of the two central
\* values of an even list, 0 for an empty list, whatever the order of the
\* list.
C16_MedianOfSortedDurations ==
    u_pc = "median" =>
        /\ \A k \in DOMAIN data : \E i \in 1..Len(result_median) :
               result_median[i][1] = k
        /\ \A i \in 1..Len(result_median) :
               /\ result_median[i][1] \in DOMAIN data
               /\ Same(result_median[i][2], MedianOf(data[result_median[i][1]]))

\* "a" has an even list out of order, whose two central values differ (2 s),
\* and "b" has an empty list (0)
C16_Witness ==
    /\ u_pc = "median"
    /\ data = [k \in {"a", "b"} |->
                  IF k = "a" THEN <<3000, 1000, 1000, 3000>> ELSE <<>>]
    /\ result_median = << <<"a", <<4000, 2000>> >>, <<"b", Zero>> >>

\* one entry for every label of the map, and the values never rise from one
\* entry to the next
OnePerLabelDescending(map, out) ==
    /\ Len(out) = Cardinality(DOMAIN map)
    /\ {out[i][1] : i \in 1..Len(out)} = DOMAIN map
    /\ \A i \in 1..Len(out) - 1 : NotBelow(out[i][2], out[i + 1][2])

\* C18: what calculate_sum, calculate_avg and calculate_median return has
\* exactly one entry for every label of the map, in an order in which the
\* values never rise; for an empty map it is empty.
C18_OneEntryPerLabelDescending ==
    /\ u_pc = "sum" => OnePerLabelDescending(data, result_sum)
    /\ u_pc = "avg" => OnePerLabelDescending(data, result_avg)
    /\ u_pc = "median" => OnePerLabelDescending(data, result_median)
    /\ (u_pc \in {"sum", "avg", "median"} /\ data = EmptyMap)
           => (result_sum = <<>> /\ result_avg = <<>> /\ result_median = <<>>)

\* the two labels of the test of lines 108-134: "something-else" (median
\* 10 s) comes out before "time_back" (4.5 s), against the order of the keys
C18_Witness ==
    /\ u_pc = "median"
    /\ DOMAIN data = {"something-else", "time_back"}
    /\ Len(result_median) = 2
    /\ result_median[1][1] = "something-else"
    /\ Same(result_median[1][2], <<10, 1>>)
    /\ result_median[2][1] = "time_back"
    /\ Same(result_median[2][2], <<9, 2>>)

\* the entries the scan opens: the path is not the one it takes for today's
\* file, and File::open succeeds
ScannedEntries ==
    SelectSeq(entries,
              LAMBDA e : /\ e.path # CurrentFilePath(config.output_directory[1],
                                                     file_name)
                         /\ e.file.kind \in {"map", "corrupt"})
\* the durations the scanned files record for a label, file by file
RecordedDurations(k) ==
    LET having == SelectSeq(ScannedEntries,
                            LAMBDA e : e.file.kind = "map" /\ k \in DOMAIN e.file.json)
    IN  [i \in 1..Len(having) |-> DurationFromJson(having[i].file.json[k])]
RecordedLabels == {k \in StatLabels : RecordedDurations(k) # <<>>}

\* C17 (as claimed): the median chart has, for every label recorded in the
\* scanned files, the median of the durations recorded for it: odd or even by
\* the number of those durations, central values after sorting.
C17_MedianChartIsMedian ==
    h_pc = "done" =>
        /\ {median_chart[i][1] : i \in 1..Len(median_chart)} = RecordedLabels
        /\ \A i \in 1..Len(median_chart) :
               Same(median_chart[i][2],
                    MedianOf(RecordedDurations(median_chart[i][1])))

\* C19: the average of a label in the chart is the sum of the durations the
\* scanned files record for it divided by the number of scanned files, the
\* files without the label included: one divisor for all labels; and
\* calculate_avg divides every label's sum by its file_count argument.
C19_AverageOverAllFiles ==
    h_pc = "done" =>
        /\ {avg_chart[i][1] : i \in 1..Len(avg_chart)} = RecordedLabels
        /\ \A i \in 1..Len(avg_chart) :
               Same(avg_chart[i][2],
                    << SumDurations(RecordedDurations(avg_chart[i][1])),
                       1000 * Len(ScannedEntries) >>)
        /\ \A r \in calculate_avg(result, file_count) :
               \A i \in 1..Len(r) :
                   Same(r[i][2],
                        << SumDurations(RecordedDurations(r[i][1])),
                           1000 * Len(ScannedEntries) >>)

\* three files scanned, "a" in one of them only (3 s) and "b" in all three:
\* the average of "a" is 1 s
C19_Witness ==
    /\ h_pc = "done"
    /\ Len(ScannedEntries) = 3
    /\ Len(RecordedDurations("a")) = 1
    /\ Len(RecordedDurations("b")) = 3
    /\ \E i \in 1..Len(avg_chart) :
           avg_chart[i][1] = "a" /\ Same(avg_chart[i][2], <<1, 1>>)

\* C20: a file of the directory that does not parse adds no duration to any
\* label and one to file_count, and the scan goes on with the next entry;
\* at the end file_count is the number of files opened, the unparseable ones
\* included, and the lists hold the durations of the parsed files only.
C20_UnparseableFileCounted ==
    [][/\ (/\ h_pc = "scan" /\ next_entry <= Len(entries)
           /\ entries[next_entry].file.kind = "corrupt"
           /\ entries[next_entry].name # file_name)
          => /\ result' = result
             /\ file_count' = file_count + 1
             /\ next_entry' = next_entry + 1
             /\ h_pc' = "scan"
       /\ h_pc' = "done"
          => /\ file_count' = Len(ScannedEntries)
             /\ DOMAIN result' = RecordedLabels
             /\ \A k \in RecordedLabels : result'[k] = RecordedDurations(k)]_vars

\* an unparseable file between two files that record "a": two durations,
\* three files counted, and the average of "a" is a third of their sum
C20_Witness ==
    /\ h_pc = "done"
    /\ Len(entries) = 3
    /\ entries[1].file = MapFile([k \in {"a"} |-> 1000])
    /\ entries[2].file = CorruptFile
    /\ entries[3].file = MapFile([k \in {"a"} |-> 3000])
    /\ \A i \in 1..3 : entries[i].name # file_name
    /\ result = [k \in {"a"} |-> <<1000, 3000>>]
    /\ file_count = 3
    /\ avg_chart = << <<"a", <<4000, 3000>> >> >>

\* the files of other days that can be opened
PreviousEntries ==
    SelectSeq(entries,
              LAMBDA e : e.name # file_name /\ e.file.kind \in {"map", "corrupt"})
\* the durations the files of other days record for a label
PreviousDurations(k) ==
    LET having == SelectSeq(PreviousEntries,
                            LAMBDA e : e.file.kind = "map" /\ k \in DOMAIN e.file.json)
    IN  [i \in 1..Len(having) |-> DurationFromJson(having[i].file.json[k])]

\* C21 (as claimed): the scan leaves today's file out: at its end file_count
\* is the number of opened files of other days, and the list of every label
\* holds the durations of those files only, so that no sum, average or median
\* has anything of today's file in it.
C21_TodaysFileLeftOut ==
    h_pc = "done" =>
        /\ file_count = Len(PreviousEntries)
        /\ \A k \in DOMAIN result : result[k] = PreviousDurations(k)
        /\ \A i \in 1..Len(sum_chart) :
               Same(sum_chart[i][2],
                    as_secs_f64(SumDurations(PreviousDurations(sum_chart[i][1]))))
\* a step of the display that calls confy::store (lines 381, 457 and 478)
CallsStore ==
    \/ \E store_ok \in BOOLEAN : DisplayInitialAccept(store_ok)
    \/ \E n \in Labels, store_ok \in BOOLEAN : DisplayToggle(n, store_ok)

\* C22 (as claimed): a step of the running display that changes the shared
\* config, by a toggle of a label or by the selection of an output directory,
\* is a step that calls confy::store with the changed config.
C22_EveryEditStored ==
    [][(phase = "running" /\ phase' = "running" /\ config' # config)
       => (/\ CallsStore
           /\ \E store_ok \in BOOLEAN :
                  persisted' = Store(persisted, config', store_ok))]_vars

\* C23 (as claimed): when Accept is clicked in the Settings window after a
\* directory was selected there, the shared config holds that directory, and
\* so does the persisted record when the store succeeds; from then on a
\* periodic flush takes that directory from the config and writes into it.
C23_AcceptedDirectoryTakesEffect ==
    [][/\ \A store_ok \in BOOLEAN :
            (DisplaySettings("accept", None, store_ok) /\ selected # None)
            => /\ config'.output_directory = selected
               /\ store_ok => persisted'.output_directory = selected
       /\ (accepted /\ s_pc = "write" /\ s_pc' = "sleep")
            => /\ config.output_directory = selected
               /\ flush_result' = "ok"
                    => files'[<<selected[1], file_name>>] = MapFile(window_time)
      ]_vars

\* the mutex a thread is about to lock
Waits(t) ==
    IF l_pc[t][1] # "exited" /\ AtStatement(t) /\ Statement(t).op = "lock"
    THEN {Statement(t).mutex} ELSE {}
\* threads that each wait for a mutex one of them holds
Deadlocked(T) == \A t \in T : \E u \in T : Waits(t) \cap Holds(u) # {}

\* C24: no set of threads is deadlocked on the two mutexes; a thread that
\* holds both took window_time before config, and no thread that holds
\* config waits for window_time.
C24_NoDeadlock ==
    /\ \A T \in SUBSET Threads : T # {} => ~Deadlocked(T)
    /\ \A t \in Threads :
           /\ Holds(t) = {"window_time", "config"}
                 => held[t] = <<"window_time", "config">>
           /\ "config" \in Holds(t) => "window_time" \notin Waits(t)

\* the display holds window_time and waits at line 366 for config, which the
\* sampler holds in its periodic flush (line 136)
C24_Witness ==
    /\ held["display"] = <<"window_time">>
    /\ l_pc["display"] = <<"table", 2>>
    /\ Waits("display") = {"config"}
    /\ held["sampler"] = <<"config">>
    /\ l_pc["sampler"] = <<"flush", 4>>

\* C25: a tick within the threshold of the active application changes one
\* entry of the store, the active application's: the key is there afterwards,
\* its value is 50 ms above what it was (above 0 when the key was absent),
\* and every other key and value is as before; a tick beyond the threshold
\* leaves the store as it was, keys included.
C25_TickCreditsOneEntry ==
    [][IsTick =>
        LET app == active_window'
            gap == IF app \in config.processes_with_longer_tracking
                   THEN long_gap_between_input ELSE small_gap_between_input
        IN  IF last_input_elapsed' <= gap
            THEN /\ DOMAIN window_time' = DOMAIN window_time \cup {app}
                 /\ window_time'[app]
                        = (IF app \in DOMAIN window_time THEN window_time[app] ELSE 0)
                          + 50
                 /\ \A k \in DOMAIN window_time \ {app} :
                        window_time'[k] = window_time[k]
            ELSE /\ DOMAIN window_time' = DOMAIN window_time
                 /\ \A k \in DOMAIN window_time : window_time'[k] = window_time[k]
      ]_vars

\* "a" was credited by the first tick, and the second tick inserted the
\* empty label and left "a" at 50 ms
C25_Witness ==
    /\ ticks = 2
    /\ active_window = EmptyLabel
    /\ credits = [l \in Labels |-> 1]
    /\ window_time = [l \in Labels |-> 50]

\* C26: a tick goes on to a flush exactly when more than 5 s have passed
\* since last_save, the time of its own sleep included, and sets last_save to
\* now when it does; the flush that follows, written, failed or skipped,
\* leaves last_save alone and the sampler in its loop.  The time since
\* last_save is then the time since the last attempt, and the next attempt
\* needs it to be above 5 s again.
C26_FlushOnlyWhenDue ==
    [][/\ \A d \in SleepDurations, mouse \in MouseStates(MousePositions),
            keys \in BOOLEAN, query \in WindowQueries :
            SamplerTick(d, mouse, keys, AppNameOf(query))
            => IF last_save_elapsed + d > 5000
               THEN s_pc' = "write" /\ last_save_elapsed' = 0
               ELSE s_pc' = "sleep" /\ last_save_elapsed' = last_save_elapsed + d
       /\ (s_pc = "write" /\ s_pc' # "write")
            => /\ s_pc' = "sleep"
               /\ last_save_elapsed' = 0
               /\ flush_result' \in FlushOutcomes \cup {"skipped"}
               /\ flush_result' = "skipped" <=> config.output_directory = None
      ]_vars

\* the first tick slept past 5 s and its flush was skipped for want of a
\* directory; the second tick slept past 5 s again and is at its flush
C26_Witness ==
    /\ ticks = 2
    /\ flush_result = "skipped"
    /\ s_pc = "write"
    /\ last_save_elapsed = 0

\* C27 (as claimed): main leaves its loop only with the close flag set; a
\* window closed without it is dropped, with the flush of Drop, and followed
\* by a new window over the same store and config (a Drop that panics or a
\* run_native that fails ends the process instead); no step of the display
\* touches the sampler, which can tick whenever it sleeps; and the file Drop
\* writes is the file the periodic flushes write, so that the next of them
\* replaces what Drop wrote.
C27_ClosedWindowReopens ==
    [][/\ (phase = "running" /\ phase' = "exited") => close
       /\ (phase = "running" /\ phase' = "running" /\ d_pc = "dropped"
               /\ d_pc' # "dropped")
            => /\ ~close
               /\ drop_result \in {"ok", "skipped"}
               /\ d_pc' = "idle"
               /\ window_time' = window_time
               /\ config' = config
       /\ (phase = "running" /\ phase' = "running" /\ d_pc' # d_pc)
            => UNCHANGED sampler_vars
       /\ (phase = "running" /\ s_pc = "sleep" /\ ticks < MaxTicks)
            => ENABLED SamplerTick(check_duration, StillMouse, FALSE, EmptyLabel)
       /\ (~close /\ d_pc = "drop_write" /\ d_pc' = "dropped"
               /\ drop_result' = "ok")
            => /\ files'[<<config.output_directory[1], today>>] = MapFile(d_data)
               /\ today = file_name
       /\ (phase = "running" /\ phase' = "running" /\ s_pc = "write"
               /\ s_pc' = "sleep" /\ flush_result' = "ok")
            => files'[<<config.output_directory[1], file_name>>]
                   = MapFile(window_time)
      ]_vars

====
